---- MODULE Spec2Model ----
(***************************************************************************)
(* Model of the pubsub package (SubConn, Message, maybeMessage) of         *)
(* radix.v2.  One SubConn is modelled together with the tasks that use it: *)
(* the readSpin goroutine, the goroutines calling Subscribe/.../Ping, the  *)
(* goroutines calling Close, the consumer of Ch, and the redis server at   *)
(* the other end of the connection.                                        *)
(*                                                                         *)
(* Model of sentinelClient of the sentinel package: the client, the        *)
(* goroutines calling ensureMaster, ensureSentinelAddrs, Do, Get and       *)
(* Close on it, the pools its PoolFunc dials and the sentinel it queries.  *)
(* The two packages share no state: Spec, FairSpec and StaleSpec run the   *)
(* SubConn and leave the sentinelClient as constructed, SentinelSpec does  *)
(* the reverse.  In StaleSpec the server sends second acknowledgments      *)
(* instead of pushes, in SilentSpec it sends nothing at all.               *)
(*                                                                         *)
(* Byte strings are sequences of one-character strings, so that            *)
(* bytes.ToUpper is computed character by character.                       *)
(***************************************************************************)
EXTENDS Integers, Sequences, FiniteSets, TLC

\* ------------------------------------------------------------------ bounds

\* number of goroutines that each issue one command call
MaxCallers == 2
\* number of goroutines that each call Close() once
MaxClosers == 1
\* number of unsolicited frames the server sends on the connection
MaxPush == 1
\* number of goroutines that each call ensureMaster once
MaxEnsurers == 2
\* number of goroutines that each call Do or Get once
MaxUsers == 1
\* number of times the monitored master changes
MaxFailovers == 1

\* The goroutines of one kind run the same code and are told apart only by
\* their number: they are numbered in the order in which they make their call.
Callers == 1..MaxCallers
Closers == 1..MaxClosers
Ensurers == 1..MaxEnsurers
Users == 1..MaxUsers

\* ------------------------------------------------------------ byte strings

lowerLetters == <<"a","b","c","d","e","f","g","h","i","j","k","l","m",
                  "n","o","p","q","r","s","t","u","v","w","x","y","z">>
upperLetters == <<"A","B","C","D","E","F","G","H","I","J","K","L","M",
                  "N","O","P","Q","R","S","T","U","V","W","X","Y","Z">>

\* one byte of bytes.ToUpper
toUpperByte(b) ==
    IF \E i \in DOMAIN lowerLetters : lowerLetters[i] = b
    THEN upperLetters[CHOOSE i \in DOMAIN lowerLetters : lowerLetters[i] = b]
    ELSE b

\* bytes.ToUpper
ToUpper(s) == [i \in DOMAIN s |-> toUpperByte(s[i])]

\* the literals []byte("MESSAGE") and []byte("PMESSAGE")
MESSAGE  == <<"M","E","S","S","A","G","E">>
PMESSAGE == <<"P","M","E","S","S","A","G","E">>

\* ------------------------------------------------------------------ errors

\* a nil error
NoErr == [kind |-> "nil", text |-> ""]
\* radix.UnmarshalErr{Err: errors.New(text)}
UnmarshalErr(text) == [kind |-> "UnmarshalErr", text |-> text]
\* the errors Decode can return that are not timeouts (the connection broke)
FatalErrs == { [kind |-> "io", text |-> "EOF"],
               [kind |-> "io", text |-> "connection reset by peer"] }

\* ----------------------------------------------------------------- Message

\* the zero value of Message
ZeroMessage == [Pattern |-> <<>>, Channel |-> <<>>, Message |-> <<>>]

\* Message.fromArr: bb is the frame without its first element
fromArrSwapped(bb, isPat) ==
    LET rest == IF isPat THEN Tail(bb) ELSE bb
    IN  [Pattern |-> IF isPat THEN bb[1] ELSE <<>>,
         Channel |-> rest[2],
         Message |-> rest[1]]

fromArr(bb, isPat) ==
    LET rest == IF isPat THEN Tail(bb) ELSE bb
    IN  [Pattern |-> IF isPat THEN bb[1] ELSE <<>>,
         Channel |-> rest[1],
         Message |-> rest[2]]

\* Message.Unmarshal, with fn having filled bb without error
MessageUnmarshalAnyTag(bb) ==
    IF Len(bb) < 3
    THEN [err |-> UnmarshalErr("message has too few elements"), m |-> ZeroMessage]
    ELSE [err |-> NoErr, m |-> fromArr(Tail(bb), FALSE)]

MessageUnmarshal(bb) ==
    IF Len(bb) < 3
    THEN [err |-> UnmarshalErr("message has too few elements"), m |-> ZeroMessage]
    ELSE LET typ   == ToUpper(bb[1])
             isPat == typ = PMESSAGE
         IN  IF isPat /\ Len(bb) < 4
             THEN [err |-> UnmarshalErr("message has too few elements"),
                   m |-> ZeroMessage]
             ELSE IF typ # MESSAGE
             THEN [err |-> UnmarshalErr("not MESSAGE or PMESSAGE"),
                   m |-> ZeroMessage]
             ELSE [err |-> NoErr, m |-> fromArr(Tail(bb), isPat)]

\* maybeMessage.Unmarshal: an UnmarshalErr is swallowed and leaves ok false
maybeMessageUnmarshal(bb) ==
    LET r == MessageUnmarshal(bb)
    IN  IF r.err.kind = "UnmarshalErr"
        THEN [err |-> NoErr, ok |-> FALSE, Message |-> r.m]
        ELSE [err |-> r.err, ok |-> r.err = NoErr, Message |-> r.m]

\* the zero value of maybeMessage (var mm maybeMessage)
ZeroMaybeMessage == [ok |-> FALSE, Message |-> ZeroMessage]

\* ------------------------------------------------------------------ frames

chan1 == <<"c","1">>
pat1  == <<"c","*">>
hello == <<"h","i">>
one   == <<"1">>
chan2 == <<"c","2">>
two   == <<"2">>

\* the unsolicited frames the server may send
PushFrames ==
    { << <<"M","e","s","s","a","g","e">>, chan1, hello >>,
      << <<"p","m","e","s","s","a","g","e">>, pat1, chan1, hello >>,
      << <<"p","m","e","s","s","a","g","e">>, pat1, chan1 >>,
      << <<"m","e","s","s","a","g","e">>, chan1 >> }

\* a frame that is no push and acknowledges no command of its own: the
\* server's second acknowledgment of a SUBSCRIBE that named two channels
SecondAcks ==
    { << <<"s","u","b","s","c","r","i","b","e">>, chan2, two >> }

\* the command names the five public methods pass to doCmd
CmdNames == {"SUBSCRIBE", "PSUBSCRIBE", "UNSUBSCRIBE", "PUNSUBSCRIBE", "PING"}

\* the server's acknowledgment of a command
AckFrame(cmd) ==
    CASE cmd = "SUBSCRIBE"    -> << <<"s","u","b","s","c","r","i","b","e">>, chan1, one >>
      [] cmd = "PSUBSCRIBE"   -> << <<"p","s","u","b","s","c","r","i","b","e">>, pat1, one >>
      [] cmd = "UNSUBSCRIBE"  -> << <<"u","n","s","u","b","s","c","r","i","b","e">>, chan1, one >>
      [] cmd = "PUNSUBSCRIBE" -> << <<"p","u","n","s","u","b","s","c","r","i","b","e">>, pat1, one >>
      [] cmd = "PING"         -> << <<"p","o","n","g">>, <<>> >>

\* the frame carries a push tag (MESSAGE or PMESSAGE, in any case)
IsPushTagged(f) == Len(f) >= 1 /\ ToUpper(f[1]) \in {MESSAGE, PMESSAGE}
IsPlainPush(f)   == Len(f) >= 3 /\ ToUpper(f[1]) = MESSAGE
IsPatternPush(f) == Len(f) >= 4 /\ ToUpper(f[1]) = PMESSAGE
IsShortPush(f)   == IsPushTagged(f) /\ ~IsPlainPush(f) /\ ~IsPatternPush(f)

\* the PushNotification a well-formed plain push frame carries
PlainOf(f) == [Pattern |-> <<>>, Channel |-> f[2], Message |-> f[3]]
\* the PushNotification a well-formed pattern push frame carries
PatternOf(f) == [Pattern |-> f[2], Channel |-> f[3], Message |-> f[4]]
\* the PushNotifications the frame f carries: one for a well-formed push
\* frame, none for any other frame
NotificationsOf(f) ==
    IF IsPlainPush(f) THEN <<PlainOf(f)>>
    ELSE IF IsPatternPush(f) THEN <<PatternOf(f)>>
    ELSE <<>>

\* --------------------------------------------------------- sentinel data

\* Strings of the sentinel package are sequences of tokens, so that
\* m["ip"] + ":" + m["port"] is a concatenation and "" is the empty sequence.
CurrentMasters ==
    << [ip |-> <<"10.0.0.5">>, port |-> <<"6379">>],
       [ip |-> <<"10.0.0.6">>, port |-> <<"6379">>] >>

\* m["ip"] + ":" + m["port"]
JoinHostPort(m) == m.ip \o <<":">> \o m.port

\* conn.RemoteAddr().String() of the sentinel connection
RemoteAddr == <<"10.0.0.1", ":", "26379">>

\* what radix.CmdNoKey("SENTINEL", "MASTER", sc.name).Into(&m).Run(conn) can
\* give when the sentinel's master is cur: an error, or a map that may lack
\* its ip or its port
MasterReplies(cur) ==
    { [err |-> [kind |-> "io", text |-> "sentinel unreachable"], m |-> cur],
      [err |-> NoErr, m |-> cur],
      [err |-> NoErr, m |-> [cur EXCEPT !.ip = <<>>]],
      [err |-> NoErr, m |-> [cur EXCEPT !.port = <<>>]] }

\* what SENTINEL SENTINELS <name> can give: an error or the other sentinels
SentinelsReplies ==
    { [err |-> [kind |-> "io", text |-> "sentinel unreachable"], mm |-> <<>>],
      [err |-> NoErr, mm |-> <<>>],
      [err |-> NoErr, mm |-> << [ip |-> <<"10.0.0.2">>, port |-> <<"26379">>] >>] }

\* errors.New("malformed SENTINEL MASTER response")
MalformedErr == [kind |-> "errors", text |-> "malformed SENTINEL MASTER response"]
\* the error of sc.pfn when the new pool cannot be dialed
DialErr == [kind |-> "io", text |-> "dial failed"]
\* the error of a pool used after its Close
PoolClosedErr == [kind |-> "pool", text |-> "pool is closed"]

\* ------------------------------------------------------------------- state

VARIABLES
    rpc,        \* position of the readSpin goroutine
    mm,         \* readSpin's local maybeMessage of the current iteration
    frame,      \* the raw frame Decode returned in the current iteration
    sigTo,      \* the owner of the doneCh readSpin received from cmdDoneCh (0: none)
    lastErr,    \* sc.lastErr
    cmdDoneCh,  \* sc.cmdDoneCh: buffered channel of capacity 1, of doneCh owners
    closed,     \* for sc.Ch, sc.closeCh and sc.c: the tasks that closed it, in order
    inbox,      \* frames the server has sent and Decode has not yet returned
    cpc,        \* position of each command-calling goroutine
    kpc,        \* position of each Close-calling goroutine
    out,        \* the Messages the consumer has received from sc.Ch
    errRet,     \* what Err() returned to the consumer (Unset before the call)
    hist        \* history: counters and facts used to state properties

vars == <<rpc, mm, frame, sigTo, lastErr, cmdDoneCh, closed, inbox,
          cpc, kpc, out, errRet, hist>>

\* ---- sentinelClient
VARIABLES
    p,          \* sc.p: the installed pool, as its number in pools (0: nil)
    pAddr,      \* sc.pAddr
    addrs,      \* sc.addrs
    wlock,      \* the goroutine holding sc.RWMutex for writing (0: nobody)
    rlock,      \* the number of goroutines holding sc.RWMutex for reading
    pools,      \* every pool sc.pfn has returned: its address, the call that
                \* dialed it and the Close() calls made on it
    master,     \* the reply the sentinel gives to SENTINEL MASTER <name> now
    epc,        \* position of each goroutine calling ensureMaster
    eloc,       \* its locals lastAddr, newAddr, newPool and the error it returned
    upc,        \* position of each goroutine calling Do or Get
    uloc,       \* the pool its call runs on and the error it returned
    apc,        \* position of the goroutine calling ensureSentinelAddrs
    aloc,       \* its local addrs and the error it returned
    xpc,        \* position of the goroutine calling Close on the client
    shist       \* history used to state properties

svars == <<p, pAddr, addrs, wlock, rlock, pools, master, epc, eloc,
           upc, uloc, apc, aloc, xpc, shist>>

\* capacity of sc.cmdDoneCh: make(chan chan bool, 1)
cmdDoneChCap == 1

\* Err() has not been called; also: a call has not returned
Unset == [kind |-> "unset", text |-> ""]

Init ==
    /\ rpc = "select"
    /\ mm = ZeroMaybeMessage
    /\ frame = <<>>
    /\ sigTo = 0
    /\ lastErr = NoErr
    /\ cmdDoneCh = <<>>
    /\ closed = [Ch |-> <<>>, closeCh |-> <<>>, c |-> <<>>]
    /\ inbox = <<>>
    /\ cpc = [c \in Callers |-> "idle"]
    /\ kpc = [k \in Closers |-> "idle"]
    /\ out = <<>>
    /\ errRet = Unset
    /\ p = 0
    /\ pAddr = <<>>
    /\ addrs = <<RemoteAddr>>
    /\ wlock = 0
    /\ rlock = 0
    /\ pools = <<>>
    /\ master = CurrentMasters[1]
    /\ epc = [e \in Ensurers |-> "idle"]
    /\ eloc = [e \in Ensurers |->
                 [lastAddr |-> <<>>, newAddr |-> <<>>, newPool |-> 0, err |-> Unset]]
    /\ upc = [u \in Users |-> "idle"]
    /\ uloc = [u \in Users |-> [pool |-> 0, err |-> Unset]]
    /\ apc = "idle"
    /\ aloc = [addrs |-> <<>>, err |-> Unset]
    /\ xpc = "idle"
    /\ shist = [failovers |-> 0,       \* times the master has changed
                lastReported |-> <<>>] \* the address of the latest well-formed reply
    /\ hist = [pushes |-> 0,       \* unsolicited frames the server has sent
               encodes |-> 0,      \* commands written to the open connection
               ackPops |-> 0,      \* tokens popped for a frame that is a command's ack
               signalled |-> {},   \* callers whose doneCh readSpin has sent on
               exitBy |-> "none",  \* why readSpin returned: "close" or "error"
               decodeErr |-> NoErr,\* the non-timeout error Decode returned
               traffic |-> FALSE,  \* Decode has returned something that is no timeout
               lateDecodes |-> 0,  \* Decode calls that returned while a Close was waiting
               late |-> {},        \* callers whose call began after readSpin had ended
               owners |-> <<>>,    \* for each frame of inbox: the caller it acknowledges (0: none)
               frameOwner |-> 0]   \* the caller the frame in hand acknowledges (0: none)

IsClosed(x) == closed[x] # <<>>
\* goroutine i is the next of its kind to make its call
IsNextToCall(pc, i) == \A j \in DOMAIN pc : j < i => pc[j] # "idle"
ClosePending == \E k \in Closers : kpc[k] = "sending"

\* ---------------------------------------------------------------- readSpin

\* Decode has returned: count it when a Close call was already waiting
Returned(h) ==
    [h EXCEPT !.lateDecodes =
        IF ClosePending /\ h.lateDecodes < 2 THEN h.lateDecodes + 1 ELSE h.lateDecodes]

\* the end of one loop iteration: mm and the frame go out of scope
NextIteration ==
    /\ rpc' = "select"
    /\ mm' = ZeroMaybeMessage
    /\ frame' = <<>>

\* select { case <-sc.closeCh: return; default: } that never takes the case
readSpinSelectDefaultOnly ==
    /\ rpc = "select"
    /\ rpc' = "decode"
    /\ UNCHANGED <<svars, mm, frame, sigTo, lastErr, cmdDoneCh, closed, inbox,
                   cpc, kpc, out, errRet, hist>>

\* select { case <-sc.closeCh: return; default: }
\* closeCh is unbuffered: the case is ready exactly when a Close call is
\* blocked in its send, and then default is not taken.
readSpinSelect ==
    /\ rpc = "select"
    /\ IF ClosePending
       THEN \E k \in Closers :
               /\ kpc[k] = "sending"
               /\ kpc' = [kpc EXCEPT ![k] = "returned"]
               /\ rpc' = "deferConnClose"
               /\ hist' = [hist EXCEPT !.exitBy = "close"]
       ELSE /\ rpc' = "decode"
            /\ UNCHANGED <<kpc, hist>>
    /\ UNCHANGED <<svars, mm, frame, sigTo, lastErr, cmdDoneCh, closed, inbox,
                   cpc, out, errRet>>

\* Decode returns a timeout and the timeout is recorded as the last error
readSpinDecodeTimeoutRecorded ==
    /\ rpc = "decode"
    /\ rpc' = "select"
    /\ lastErr' = [kind |-> "timeout", text |-> "i/o timeout"]
    /\ hist' = Returned(hist)
    /\ UNCHANGED <<svars, mm, frame, sigTo, cmdDoneCh, closed, inbox,
                   cpc, kpc, out, errRet>>

\* Decode returns a net.Error whose Timeout() is true: continue
readSpinDecodeTimeout ==
    /\ rpc = "decode"
    /\ rpc' = "select"
    /\ hist' = Returned(hist)
    /\ UNCHANGED <<svars, mm, frame, sigTo, lastErr, cmdDoneCh, closed, inbox,
                   cpc, kpc, out, errRet>>

\* Decode returns any other error: sc.lastErr = err; return
readSpinDecodeErr(e) ==
    /\ rpc = "decode"
    /\ lastErr' = e
    /\ rpc' = "deferConnClose"
    /\ hist' = [Returned(hist) EXCEPT !.exitBy = "error", !.decodeErr = e,
                                      !.traffic = TRUE]
    /\ UNCHANGED <<svars, mm, frame, sigTo, cmdDoneCh, closed, inbox,
                   cpc, kpc, out, errRet>>

\* Decode reads one frame and unmarshals it into mm without error
readSpinDecodeFrame ==
    /\ rpc = "decode"
    /\ inbox # <<>>
    /\ LET r == maybeMessageUnmarshal(Head(inbox))
       IN  /\ r.err = NoErr
           /\ mm' = [ok |-> r.ok, Message |-> r.Message]
           /\ rpc' = IF r.ok THEN "send" ELSE "pop"
    /\ frame' = Head(inbox)
    /\ inbox' = Tail(inbox)
    /\ hist' = [Returned(hist) EXCEPT !.traffic = TRUE,
                                      !.owners = Tail(@),
                                      !.frameOwner = Head(hist.owners)]
    /\ UNCHANGED <<svars, sigTo, lastErr, cmdDoneCh, closed, cpc, kpc, out, errRet>>

\* a receive from sc.cmdDoneCh that gives the frame up when the queue is empty
readSpinPopOrSkip ==
    /\ rpc = "pop"
    /\ IF cmdDoneCh # <<>>
       THEN /\ sigTo' = Head(cmdDoneCh)
            /\ cmdDoneCh' = Tail(cmdDoneCh)
            /\ rpc' = "signal"
            /\ hist' = [hist EXCEPT !.ackPops =
                           IF IsPushTagged(frame) THEN @ ELSE @ + 1]
            /\ UNCHANGED <<mm, frame>>
       ELSE /\ NextIteration
            /\ hist' = [hist EXCEPT !.frameOwner = 0]
            /\ UNCHANGED <<sigTo, cmdDoneCh>>
    /\ UNCHANGED <<svars, lastErr, closed, inbox, cpc, kpc, out, errRet>>

\* !mm.ok: the receive of (<-sc.cmdDoneCh) <- true; blocks while the queue is empty
readSpinPop ==
    /\ rpc = "pop"
    /\ cmdDoneCh # <<>>
    /\ sigTo' = Head(cmdDoneCh)
    /\ cmdDoneCh' = Tail(cmdDoneCh)
    /\ rpc' = "signal"
    /\ hist' = [hist EXCEPT !.ackPops =
                   IF IsPushTagged(frame) THEN @ ELSE @ + 1]
    /\ UNCHANGED <<svars, mm, frame, lastErr, closed, inbox, cpc, kpc, out, errRet>>

\* the send of (<-sc.cmdDoneCh) <- true, which is doCmd's <-doneCh: doneCh is
\* unbuffered, so the send happens when its owner is receiving; then continue
readSpinSignal ==
    /\ rpc = "signal"
    /\ cpc[sigTo] = "wait"
    /\ cpc' = [cpc EXCEPT ![sigTo] = "returned"]
    /\ hist' = [hist EXCEPT !.signalled = @ \cup {sigTo}, !.frameOwner = 0]
    /\ sigTo' = 0
    /\ NextIteration
    /\ UNCHANGED <<svars, lastErr, cmdDoneCh, closed, inbox, kpc, out, errRet>>

\* ch <- mm.Message: ch is unbuffered, the send happens when the consumer receives
readSpinSend ==
    /\ rpc = "send"
    /\ out' = Append(out, mm.Message)
    /\ NextIteration
    /\ UNCHANGED <<svars, sigTo, lastErr, cmdDoneCh, closed, inbox, cpc, kpc,
                   errRet, hist>>

\* the deferred calls run last in, first out: sc.c.Close()
readSpinDeferConnClose ==
    /\ rpc = "deferConnClose"
    /\ closed' = [closed EXCEPT !.c = Append(@, "readSpin")]
    /\ rpc' = "deferCloseCloseCh"
    /\ UNCHANGED <<svars, mm, frame, sigTo, lastErr, cmdDoneCh, inbox, cpc, kpc,
                   out, errRet, hist>>

\* close(sc.closeCh)
readSpinDeferCloseCloseCh ==
    /\ rpc = "deferCloseCloseCh"
    /\ closed' = [closed EXCEPT !.closeCh = Append(@, "readSpin")]
    /\ rpc' = "deferCloseCh"
    /\ UNCHANGED <<svars, mm, frame, sigTo, lastErr, cmdDoneCh, inbox, cpc, kpc,
                   out, errRet, hist>>

\* close(ch); the goroutine ends
readSpinDeferCloseCh ==
    /\ rpc = "deferCloseCh"
    /\ closed' = [closed EXCEPT !.Ch = Append(@, "readSpin")]
    /\ rpc' = "exited"
    /\ UNCHANGED <<svars, mm, frame, sigTo, lastErr, cmdDoneCh, inbox, cpc, kpc,
                   out, errRet, hist>>

readSpin ==
    \/ readSpinSelect
    \/ readSpinDecodeTimeout
    \/ \E e \in FatalErrs : readSpinDecodeErr(e)
    \/ readSpinDecodeFrame
    \/ readSpinPop
    \/ readSpinSignal
    \/ readSpinDeferConnClose
    \/ readSpinDeferCloseCloseCh
    \/ readSpinDeferCloseCh

\* ------------------------------------------------------------- Err, Close

\* Err(), called by the consumer after it has seen Ch closed
Err ==
    /\ IsClosed("Ch")
    /\ errRet = Unset
    /\ errRet' = lastErr
    /\ UNCHANGED <<svars, rpc, mm, frame, sigTo, lastErr, cmdDoneCh, closed, inbox,
                   cpc, kpc, out, hist>>

\* Close() that also closes the underlying connection itself
CloseClosingConn(k) ==
    /\ kpc[k] = "idle"
    /\ IsNextToCall(kpc, k)
    /\ kpc' = [kpc EXCEPT ![k] = "sending"]
    /\ closed' = [closed EXCEPT !.c = Append(@, "Close")]
    /\ UNCHANGED <<svars, rpc, mm, frame, sigTo, lastErr, cmdDoneCh, inbox,
                   cpc, out, errRet, hist>>

\* Close(): sc.closeCh <- true begins; the send completes in readSpinSelect
Close(k) ==
    /\ kpc[k] = "idle"
    /\ IsNextToCall(kpc, k)
    /\ kpc' = [kpc EXCEPT ![k] = "sending"]
    /\ UNCHANGED <<svars, rpc, mm, frame, sigTo, lastErr, cmdDoneCh, closed, inbox,
                   cpc, out, errRet, hist>>

\* a send on the closed closeCh panics, also when it was already blocked
ClosePanic(k) ==
    /\ kpc[k] = "sending"
    /\ IsClosed("closeCh")
    /\ kpc' = [kpc EXCEPT ![k] = "panicked"]
    /\ UNCHANGED <<svars, rpc, mm, frame, sigTo, lastErr, cmdDoneCh, closed, inbox,
                   cpc, out, errRet, hist>>

\* ------------------------------------------------------------------ doCmd

\* doCmd is entered: doneCh := make(chan bool)
doCmdCall(c) ==
    /\ cpc[c] = "idle"
    /\ IsNextToCall(cpc, c)
    /\ cpc' = [cpc EXCEPT ![c] = "enqueue"]
    /\ hist' = [hist EXCEPT !.late = IF rpc = "exited" THEN @ \cup {c} ELSE @]
    /\ UNCHANGED <<svars, rpc, mm, frame, sigTo, lastErr, cmdDoneCh, closed, inbox,
                   kpc, out, errRet>>

\* sc.cmdDoneCh <- doneCh on a queue without bound
doCmdEnqueueUnbounded(c) ==
    /\ cpc[c] = "enqueue"
    /\ cmdDoneCh' = Append(cmdDoneCh, c)
    /\ cpc' = [cpc EXCEPT ![c] = "encode"]
    /\ UNCHANGED <<svars, rpc, mm, frame, sigTo, lastErr, closed, inbox, kpc,
                   out, errRet, hist>>

\* sc.cmdDoneCh <- doneCh: blocks while the buffer is full
doCmdEnqueue(c) ==
    /\ cpc[c] = "enqueue"
    /\ Len(cmdDoneCh) < cmdDoneChCap
    /\ cmdDoneCh' = Append(cmdDoneCh, c)
    /\ cpc' = [cpc EXCEPT ![c] = "encode"]
    /\ UNCHANGED <<svars, rpc, mm, frame, sigTo, lastErr, closed, inbox, kpc,
                   out, errRet, hist>>

\* an Encode whose error on the closed connection is returned to the caller
doCmdEncodeReturningErr(c, cmd) ==
    /\ cpc[c] = "encode"
    /\ IF IsClosed("c")
       THEN /\ cpc' = [cpc EXCEPT ![c] = "returned"]
            /\ UNCHANGED <<inbox, hist>>
       ELSE /\ cpc' = [cpc EXCEPT ![c] = "wait"]
            /\ inbox' = Append(inbox, AckFrame(cmd))
            /\ hist' = [hist EXCEPT !.encodes = @ + 1, !.owners = Append(@, c)]
    /\ UNCHANGED <<svars, rpc, mm, frame, sigTo, lastErr, cmdDoneCh, closed, kpc,
                   out, errRet>>

\* sc.c.Encode(radix.CmdNoKey(cmd, args)); its error is dropped.  On an open
\* connection the server receives the command and sends one acknowledgment.
doCmdEncode(c, cmd) ==
    /\ cpc[c] = "encode"
    /\ cpc' = [cpc EXCEPT ![c] = "wait"]
    /\ IF IsClosed("c")
       THEN UNCHANGED <<inbox, hist>>
       ELSE /\ inbox' = Append(inbox, AckFrame(cmd))
            /\ hist' = [hist EXCEPT !.encodes = @ + 1, !.owners = Append(@, c)]
    /\ UNCHANGED <<svars, rpc, mm, frame, sigTo, lastErr, cmdDoneCh, closed, kpc,
                   out, errRet>>

\* doCmd(cmd, args...) run by goroutine c, up to its final <-doneCh, which is
\* readSpinSignal.  The command name is first read by Encode, so the state
\* does not record it before.
doCmd(c, cmd) ==
    \/ doCmdCall(c)
    \/ doCmdEnqueue(c)
    \/ doCmdEncode(c, cmd)

Subscribe(c)    == doCmd(c, "SUBSCRIBE")
PSubscribe(c)   == doCmd(c, "PSUBSCRIBE")
Unsubscribe(c)  == doCmd(c, "UNSUBSCRIBE")
PUnsubscribe(c) == doCmd(c, "PUNSUBSCRIBE")
Ping(c)         == doCmd(c, "PING")

\* ----------------------------------------------------------------- server

\* the server sends an unsolicited frame on the open connection
ServerPush(f) ==
    /\ hist.pushes < MaxPush
    /\ ~IsClosed("c")
    /\ inbox' = Append(inbox, f)
    /\ hist' = [hist EXCEPT !.pushes = @ + 1, !.owners = Append(@, 0)]
    /\ UNCHANGED <<svars, rpc, mm, frame, sigTo, lastErr, cmdDoneCh, closed,
                   cpc, kpc, out, errRet>>

\* ---------------------------------------------------------- sentinelClient

\* sc.Lock() can be taken: nobody holds the lock
CanLock == wlock = 0 /\ rlock = 0
\* sc.RLock() can be taken: nobody holds the lock for writing
CanRLock == wlock = 0
\* pool i has been closed
PoolClosed(i) == pools[i].closedBy # <<>>
\* pool i with one more Close() recorded
ClosePool(i, by) == [pools EXCEPT ![i].closedBy = Append(@, by)]
\* the error a method of pool i returns
PoolErr(i) == IF PoolClosed(i) THEN PoolClosedErr ELSE NoErr

\* ensureMaster: sc.Lock(); lastAddr := sc.pAddr; sc.Unlock()
ensureMasterLastAddr(e) ==
    /\ epc[e] = "idle"
    /\ IsNextToCall(epc, e)
    /\ CanLock
    /\ eloc' = [eloc EXCEPT ![e].lastAddr = pAddr]
    /\ epc' = [epc EXCEPT ![e] = "query"]
    /\ UNCHANGED <<vars, p, pAddr, addrs, wlock, rlock, pools, master,
                   upc, uloc, apc, aloc, xpc, shist>>

\* ensureMaster: the SENTINEL MASTER query, the tests of its result and the
\* comparison of newAddr with lastAddr
ensureMasterQuery(e, r) ==
    /\ epc[e] = "query"
    /\ IF r.err # NoErr
       THEN /\ eloc' = [eloc EXCEPT ![e].err = r.err]
            /\ epc' = [epc EXCEPT ![e] = "done"]
            /\ UNCHANGED shist
       ELSE IF r.m.ip = <<>> \/ r.m.port = <<>>
       THEN /\ eloc' = [eloc EXCEPT ![e].err = MalformedErr]
            /\ epc' = [epc EXCEPT ![e] = "done"]
            /\ UNCHANGED shist
       ELSE LET newAddr == JoinHostPort(r.m)
            IN  /\ shist' = [shist EXCEPT !.lastReported = newAddr]
                /\ IF newAddr = eloc[e].lastAddr
                   THEN /\ eloc' = [eloc EXCEPT ![e].err = NoErr]
                        /\ epc' = [epc EXCEPT ![e] = "done"]
                   ELSE /\ eloc' = [eloc EXCEPT ![e].newAddr = newAddr]
                        /\ epc' = [epc EXCEPT ![e] = "dial"]
    /\ UNCHANGED <<vars, p, pAddr, addrs, wlock, rlock, pools, master,
                   upc, uloc, apc, aloc, xpc>>

\* a dial whose failure also drops the installed pool
ensureMasterDialDroppingPool(e, ok) ==
    /\ epc[e] = "dial"
    /\ IF ok
       THEN /\ pools' = Append(pools, [addr |-> eloc[e].newAddr, dialedBy |-> e,
                                       closedBy |-> <<>>])
            /\ eloc' = [eloc EXCEPT ![e].newPool = Len(pools) + 1]
            /\ epc' = [epc EXCEPT ![e] = "lock"]
            /\ UNCHANGED <<p, pAddr>>
       ELSE /\ eloc' = [eloc EXCEPT ![e].err = DialErr]
            /\ epc' = [epc EXCEPT ![e] = "done"]
            /\ p' = 0
            /\ pAddr' = <<>>
            /\ UNCHANGED pools
    /\ UNCHANGED <<vars, addrs, wlock, rlock, master,
                   upc, uloc, apc, aloc, xpc, shist>>

\* ensureMaster: newPool, err := sc.pfn("tcp", newAddr)
ensureMasterDial(e, ok) ==
    /\ epc[e] = "dial"
    /\ IF ok
       THEN /\ pools' = Append(pools, [addr |-> eloc[e].newAddr, dialedBy |-> e,
                                       closedBy |-> <<>>])
            /\ eloc' = [eloc EXCEPT ![e].newPool = Len(pools) + 1]
            /\ epc' = [epc EXCEPT ![e] = "lock"]
       ELSE /\ eloc' = [eloc EXCEPT ![e].err = DialErr]
            /\ epc' = [epc EXCEPT ![e] = "done"]
            /\ UNCHANGED pools
    /\ UNCHANGED <<vars, p, pAddr, addrs, wlock, rlock, master,
                   upc, uloc, apc, aloc, xpc, shist>>

\* a second sc.Lock() that does not wait for the readers of the lock
ensureMasterLockIgnoringReaders(e) ==
    /\ epc[e] = "lock"
    /\ wlock = 0
    /\ wlock' = e
    /\ epc' = [epc EXCEPT ![e] = "closePrev"]
    /\ UNCHANGED <<vars, p, pAddr, addrs, rlock, pools, master, eloc,
                   upc, uloc, apc, aloc, xpc, shist>>

\* ensureMaster: the second sc.Lock()
ensureMasterLock(e) ==
    /\ epc[e] = "lock"
    /\ CanLock
    /\ wlock' = e
    /\ epc' = [epc EXCEPT ![e] = "closePrev"]
    /\ UNCHANGED <<vars, p, pAddr, addrs, rlock, pools, master, eloc,
                   upc, uloc, apc, aloc, xpc, shist>>

\* a swap that closes every pool dialed so far, the new one included
ensureMasterCloseEveryPool(e) ==
    /\ epc[e] = "closePrev"
    /\ pools' = [i \in DOMAIN pools |->
                    [pools[i] EXCEPT !.closedBy = Append(@, "ensureMaster")]]
    /\ epc' = [epc EXCEPT ![e] = "install"]
    /\ UNCHANGED <<vars, p, pAddr, addrs, wlock, rlock, master, eloc,
                   upc, uloc, apc, aloc, xpc, shist>>

\* ensureMaster: if sc.p != nil { sc.p.Close() }
ensureMasterClosePrev(e) ==
    /\ epc[e] = "closePrev"
    /\ pools' = IF p # 0 THEN ClosePool(p, "ensureMaster") ELSE pools
    /\ epc' = [epc EXCEPT ![e] = "install"]
    /\ UNCHANGED <<vars, p, pAddr, addrs, wlock, rlock, master, eloc,
                   upc, uloc, apc, aloc, xpc, shist>>

\* the swap that stores the new address and leaves the old pool in sc.p
ensureMasterInstallAddrOnly(e) ==
    /\ epc[e] = "install"
    /\ pAddr' = eloc[e].newAddr
    /\ wlock' = 0
    /\ eloc' = [eloc EXCEPT ![e].err = NoErr]
    /\ epc' = [epc EXCEPT ![e] = "done"]
    /\ UNCHANGED <<vars, p, addrs, rlock, pools, master,
                   upc, uloc, apc, aloc, xpc, shist>>

\* ensureMaster: sc.p = newPool; sc.pAddr = newAddr; sc.Unlock(); return nil
ensureMasterInstall(e) ==
    /\ epc[e] = "install"
    /\ p' = eloc[e].newPool
    /\ pAddr' = eloc[e].newAddr
    /\ wlock' = 0
    /\ eloc' = [eloc EXCEPT ![e].err = NoErr]
    /\ epc' = [epc EXCEPT ![e] = "done"]
    /\ UNCHANGED <<vars, addrs, rlock, pools, master,
                   upc, uloc, apc, aloc, xpc, shist>>

ensureMaster(e) ==
    \/ ensureMasterLastAddr(e)
    \/ \E r \in MasterReplies(master) : ensureMasterQuery(e, r)
    \/ \E ok \in BOOLEAN : ensureMasterDial(e, ok)
    \/ ensureMasterLock(e)
    \/ ensureMasterClosePrev(e)
    \/ ensureMasterInstall(e)

\* ensureSentinelAddrs: addrs := []string{conn.RemoteAddr().String()}, the
\* SENTINEL SENTINELS query and the loop appending ip:port of every reply
ensureSentinelAddrsQuery(r) ==
    /\ apc = "idle"
    /\ IF r.err # NoErr
       THEN /\ aloc' = [aloc EXCEPT !.err = r.err]
            /\ apc' = "done"
       ELSE /\ aloc' = [aloc EXCEPT !.addrs =
                           <<RemoteAddr>> \o
                           [i \in DOMAIN r.mm |-> JoinHostPort(r.mm[i])]]
            /\ apc' = "assign"
    /\ UNCHANGED <<vars, p, pAddr, addrs, wlock, rlock, pools, master,
                   epc, eloc, upc, uloc, xpc, shist>>

\* ensureSentinelAddrs: sc.Lock(); sc.addrs = addrs; sc.Unlock(); return nil
ensureSentinelAddrsAssign ==
    /\ apc = "assign"
    /\ CanLock
    /\ addrs' = aloc.addrs
    /\ aloc' = [aloc EXCEPT !.err = NoErr]
    /\ apc' = "done"
    /\ UNCHANGED <<vars, p, pAddr, wlock, rlock, pools, master,
                   epc, eloc, upc, uloc, xpc, shist>>

ensureSentinelAddrs ==
    \/ \E r \in SentinelsReplies : ensureSentinelAddrsQuery(r)
    \/ ensureSentinelAddrsAssign

\* Do: sc.RLock(); defer sc.RUnlock(); then sc.p.Do(a) begins. A method
\* called on the nil sc.p panics, and the deferred RUnlock still runs.
DoBegin(u) ==
    /\ upc[u] = "idle"
    /\ IsNextToCall(upc, u)
    /\ CanRLock
    /\ IF p = 0
       THEN /\ upc' = [upc EXCEPT ![u] = "panicked"]
            /\ UNCHANGED <<rlock, uloc>>
       ELSE /\ rlock' = rlock + 1
            /\ uloc' = [uloc EXCEPT ![u].pool = p]
            /\ upc' = [upc EXCEPT ![u] = "inDo"]
    /\ UNCHANGED <<vars, p, pAddr, addrs, wlock, pools, master,
                   epc, eloc, apc, aloc, xpc, shist>>

\* Do: sc.p.Do(a) returns and its error is returned as it is; sc.RUnlock()
DoEnd(u) ==
    /\ upc[u] = "inDo"
    /\ uloc' = [uloc EXCEPT ![u].err = PoolErr(uloc[u].pool)]
    /\ rlock' = rlock - 1
    /\ upc' = [upc EXCEPT ![u] = "done"]
    /\ UNCHANGED <<vars, p, pAddr, addrs, wlock, pools, master,
                   epc, eloc, apc, aloc, xpc, shist>>

Do(u) == DoBegin(u) \/ DoEnd(u)

\* Get: sc.RLock(); defer sc.RUnlock(); return sc.p.Get()
Get(u) ==
    /\ upc[u] = "idle"
    /\ IsNextToCall(upc, u)
    /\ CanRLock
    /\ IF p = 0
       THEN /\ upc' = [upc EXCEPT ![u] = "panicked"]
            /\ UNCHANGED uloc
       ELSE /\ uloc' = [uloc EXCEPT ![u] = [pool |-> p, err |-> PoolErr(p)]]
            /\ upc' = [upc EXCEPT ![u] = "done"]
    /\ UNCHANGED <<vars, p, pAddr, addrs, wlock, rlock, pools, master,
                   epc, eloc, apc, aloc, xpc, shist>>

\* Close: sc.RLock(); defer sc.RUnlock(); return sc.p.Close()
sentinelClientClose ==
    /\ xpc = "idle"
    /\ CanRLock
    /\ IF p = 0
       THEN /\ xpc' = "panicked"
            /\ UNCHANGED pools
       ELSE /\ pools' = ClosePool(p, "Close")
            /\ xpc' = "done"
    /\ UNCHANGED <<vars, p, pAddr, addrs, wlock, rlock, master,
                   epc, eloc, upc, uloc, apc, aloc, shist>>

\* the sentinel fails over to the other master
Failover ==
    /\ shist.failovers < MaxFailovers
    /\ master' = IF master = CurrentMasters[1]
                 THEN CurrentMasters[2] ELSE CurrentMasters[1]
    /\ shist' = [shist EXCEPT !.failovers = @ + 1]
    /\ UNCHANGED <<vars, p, pAddr, addrs, wlock, rlock, pools,
                   epc, eloc, upc, uloc, apc, aloc, xpc>>

\* ----------------------------------------------------------- specification

Next ==
    \/ readSpin
    \/ readSpinSend
    \/ Err
    \/ \E k \in Closers : Close(k)
    \/ \E k \in Closers : ClosePanic(k)
    \/ \E c \in Callers : Subscribe(c)
    \/ \E c \in Callers : PSubscribe(c)
    \/ \E c \in Callers : Unsubscribe(c)
    \/ \E c \in Callers : PUnsubscribe(c)
    \/ \E c \in Callers : Ping(c)
    \/ \E f \in PushFrames : ServerPush(f)

Spec == Init /\ [][Next]_vars

\* The SubConn on a connection whose only unsolicited frames are second
\* acknowledgments: no push arrives, so nothing is ever sent on Ch.
StaleNext ==
    \/ readSpin
    \/ Err
    \/ \E k \in Closers : Close(k)
    \/ \E k \in Closers : ClosePanic(k)
    \/ \E c \in Callers : Subscribe(c)
    \/ \E c \in Callers : PSubscribe(c)
    \/ \E c \in Callers : Unsubscribe(c)
    \/ \E c \in Callers : PUnsubscribe(c)
    \/ \E c \in Callers : Ping(c)
    \/ \E f \in SecondAcks : ServerPush(f)

StaleSpec == Init /\ [][StaleNext]_vars

\* The Go scheduler runs every goroutine that can take a step: readSpin, the
\* blocked Close calls and the command calls progress on their own.  What the
\* environment does is not forced: the consumer may never receive from Ch
\* (readSpinSend), calls need not be made, the server need not push.
FairSpec ==
    /\ Spec
    /\ WF_vars(readSpin)
    /\ \A k \in Closers : WF_vars(ClosePanic(k))
    /\ \A c \in Callers :
          WF_vars(doCmdEnqueue(c) \/ \E n \in CmdNames : doCmdEncode(c, n))

SentinelNext ==
    \/ \E e \in Ensurers : ensureMaster(e)
    \/ ensureSentinelAddrs
    \/ \E u \in Users : Do(u)
    \/ \E u \in Users : Get(u)
    \/ sentinelClientClose
    \/ Failover

SentinelSpec == Init /\ [][SentinelNext]_svars

\* The SubConn on a silent connection: the server sends nothing, neither
\* pushes nor acknowledgments, so a Decode of readSpin times out or fails.
SilentReadSpin ==
    \/ readSpinSelect
    \/ readSpinDecodeTimeout
    \/ \E e \in FatalErrs : readSpinDecodeErr(e)
    \/ readSpinDeferConnClose
    \/ readSpinDeferCloseCloseCh
    \/ readSpinDeferCloseCh

SilentNext ==
    \/ SilentReadSpin
    \/ Err
    \/ \E k \in Closers : Close(k)
    \/ \E k \in Closers : ClosePanic(k)
    \/ \E c \in Callers : Subscribe(c)
    \/ \E c \in Callers : PSubscribe(c)
    \/ \E c \in Callers : Unsubscribe(c)
    \/ \E c \in Callers : PUnsubscribe(c)
    \/ \E c \in Callers : Ping(c)

\* with the fairness of FairSpec
SilentSpec ==
    /\ Init /\ [][SilentNext]_vars
    /\ WF_vars(SilentReadSpin)
    /\ \A k \in Closers : WF_vars(ClosePanic(k))
    /\ \A c \in Callers :
          WF_vars(doCmdEnqueue(c) \/ \E n \in CmdNames : doCmdEncode(c, n))

\* ------------------------------------------------------------- properties

\* readSpin has returned from its loop
Exiting == rpc \in {"deferConnClose", "deferCloseCloseCh", "deferCloseCh", "exited"}
\* every Decode so far has returned a timeout
Quiet == ~hist.traffic

\* C1: the server acknowledges every command once; the Nth command is written
\* to the connection only after readSpin has decoded the acknowledgments of
\* the N-1 commands before it and popped a token for each of them.
C1_EncodeAfterPreviousAck ==
    hist.encodes <= hist.ackPops + 1

\* C2: a decoded frame without a push tag is handled as an acknowledgment:
\* readSpin pops one token, the head of cmdDoneCh, signals its owner and
\* forwards nothing to Ch; a command call returns only in the step in which
\* readSpin signals its own token.
C2_NonPushIsAck ==
    /\ [](/\ (frame # <<>> /\ ~IsPushTagged(frame)) =>
                 (~mm.ok /\ rpc \in {"pop", "signal"})
          /\ rpc = "pop" => sigTo = 0
          /\ rpc = "signal" => sigTo \in Callers
          /\ \A c \in Callers : cpc[c] = "returned" => c \in hist.signalled)
    /\ [][ /\ (frame # <<>> /\ ~IsPushTagged(frame)) => out' = out
           /\ (rpc = "pop" /\ rpc' # "pop") =>
                 /\ cmdDoneCh # <<>>
                 /\ sigTo' = Head(cmdDoneCh)
                 /\ cmdDoneCh' = Tail(cmdDoneCh)
           /\ (frame # <<>> /\ ~IsPushTagged(frame) /\ frame' = <<>>) =>
                 rpc = "signal"
           /\ \A c \in Callers :
                 (cpc[c] # "returned" /\ cpc'[c] = "returned") =>
                     (rpc = "signal" /\ sigTo = c /\ cpc[c] = "wait") ]_vars

\* C2 witness: an acknowledgment was consumed, its caller has returned and
\* nothing was forwarded
C2_Witness ==
    /\ hist.ackPops >= 1
    /\ \E c \in Callers : cpc[c] = "returned" /\ c \in hist.signalled
    /\ out = <<>>
    /\ rpc = "select"

\* C3: a decoded frame of at least 3 elements whose tag upper-cases to MESSAGE
\* is a plain push with Channel = element 1, Payload = element 2 and no
\* Pattern; readSpin forwards exactly that Message to Ch and takes no token
\* from cmdDoneCh while it handles the frame.
C3_PlainPushForwarded ==
    /\ [](IsPlainPush(frame) =>
             (mm.ok /\ rpc = "send" /\ mm.Message = PlainOf(frame) /\ sigTo = 0))
    /\ [][IsPlainPush(frame) =>
             /\ sigTo' = 0
             /\ hist'.ackPops = hist.ackPops
             /\ Len(cmdDoneCh') >= Len(cmdDoneCh)
             /\ (frame' # frame => out' = Append(out, PlainOf(frame))) ]_vars

\* C3 witness: the consumer has received the Message of a plain push
C3_Witness ==
    /\ out = << [Pattern |-> <<>>, Channel |-> chan1, Message |-> hello] >>
    /\ frame = <<>>

\* C4: a decoded frame of at least 4 elements whose tag upper-cases to
\* PMESSAGE is a pattern push with Pattern = element 1, Channel = element 2,
\* Payload = element 3, which readSpin forwards to Ch instead of handling the
\* frame as an acknowledgment.
C4_PatternPushForwarded ==
    IsPatternPush(frame) =>
        (mm.ok /\ rpc = "send" /\ mm.Message = PatternOf(frame))

\* C5: a decoded frame with a push tag and too few elements ends readSpin with
\* a framing error in lastErr; it is neither handled as an acknowledgment nor
\* forwarded.
C5_ShortPushIsFatal ==
    (frame # <<>> /\ IsShortPush(frame)) =>
        (Exiting /\ lastErr.kind = "UnmarshalErr")

\* C6: every Close() call returns normally, whenever it is made.
C6_CloseNeverPanics ==
    \A k \in Closers : kpc[k] # "panicked"

\* C7: when readSpin is blocked handing a Message to Ch and Close() is called,
\* readSpin stops and Ch is closed, even if nobody receives from Ch.
C7_CloseAbandonsHandoff ==
    (rpc = "send" /\ ClosePending) ~> IsClosed("Ch")

\* C8: Ch and the connection are each closed at most once, only by readSpin
\* and only once it has returned from its loop, and exactly once when it has
\* ended, whether it returned because of Close() or of a decode error.
C8_ClosedOnceByReadSpin ==
    /\ \A x \in {"Ch", "c"} :
          /\ Len(closed[x]) <= 1
          /\ \A i \in DOMAIN closed[x] : closed[x][i] = "readSpin"
    /\ IsClosed("c") => Exiting /\ rpc # "deferConnClose"
    /\ IsClosed("Ch") => rpc = "exited"
    /\ rpc = "exited" => (Len(closed.Ch) = 1 /\ Len(closed.c) = 1)
    /\ Exiting <=> hist.exitBy \in {"close", "error"}

\* C8 witness: readSpin has ended on a decode error while a Close() call was
\* waiting, and both are closed once
C8_Witness ==
    /\ rpc = "exited"
    /\ hist.exitBy = "error"
    /\ \E k \in Closers : kpc[k] # "idle"
    /\ closed.Ch = <<"readSpin">>
    /\ closed.c = <<"readSpin">>

\* C9: once Ch is closed, lastErr (and so Err()) is non-nil exactly when
\* readSpin ended on a non-timeout error of Decode, and is then that error;
\* an end by Close() and earlier timeouts leave it nil.
C9_ErrIsTheFatalDecodeError ==
    /\ IsClosed("Ch") =>
          /\ (lastErr # NoErr) <=> (hist.exitBy = "error")
          /\ hist.exitBy = "error" => lastErr = hist.decodeErr
          /\ hist.exitBy = "close" => lastErr = NoErr
    /\ errRet # Unset =>
          errRet = IF hist.exitBy = "error" THEN hist.decodeErr ELSE NoErr

\* C9 witness: Err() has returned the error Decode failed with
C9_Witness ==
    /\ errRet \in FatalErrs
    /\ errRet = hist.decodeErr
    /\ hist.exitBy = "error"

\* C10: on a connection where every Decode times out, once a Close() call is
\* waiting readSpin ends, Ch is closed and lastErr stays nil; at most one
\* Decode returns while the Close() call waits.
C10_CloseOnQuietConn ==
    /\ [](hist.lateDecodes <= 1)
    /\ []((Quiet /\ IsClosed("Ch")) => (lastErr = NoErr /\ hist.exitBy = "close"))
    /\ ([]Quiet) =>
          (ClosePending ~> (rpc = "exited" /\ IsClosed("Ch") /\ lastErr = NoErr))

\* C10 witness: Close() was called during a Decode that then timed out, and
\* readSpin has ended with Ch closed and no error
C10_Witness ==
    /\ Quiet
    /\ hist.lateDecodes = 1
    /\ rpc = "exited"
    /\ IsClosed("Ch")
    /\ lastErr = NoErr
    /\ \E k \in Closers : kpc[k] = "returned"


\* the command calls that have enqueued their doneCh and have not been signalled
Outstanding == {c \in Callers : cpc[c] \in {"encode", "wait"}}
\* the doneCh are in sc.cmdDoneCh
Queued == {cmdDoneCh[i] : i \in DOMAIN cmdDoneCh}

\* C17 as stated: never two command calls that have enqueued their doneCh
\* and have not yet been signalled.
C17_AtMostOneOutstanding == Cardinality(Outstanding) <= 1

\* C17 amended: sc.cmdDoneCh never holds more than one doneCh; a call that
\* has enqueued and has not been signalled has its doneCh either in the queue
\* or in the hands of readSpin, which has received it and not yet sent on it;
\* so there are at most two such calls, and two only between readSpin's
\* receive from the queue and its send on the doneCh it received.
C17_OneQueuedOneInHand ==
    /\ Len(cmdDoneCh) <= cmdDoneChCap
    /\ Outstanding = Queued \cup (IF sigTo = 0 THEN {} ELSE {sigTo})
    /\ sigTo \notin Queued
    /\ sigTo # 0 <=> rpc = "signal"

\* readSpin has received the first call's doneCh for that call's
\* acknowledgment and has not yet sent on it; a second call has enqueued
C17_Witness ==
    /\ rpc = "signal"
    /\ ~IsPushTagged(frame)
    /\ cpc[sigTo] = "wait"
    /\ Len(cmdDoneCh) = 1
    /\ hist.pushes = 0

\* C18: a command call that began after readSpin had ended is for ever in
\* its enqueue, in its write or in its wait for the signal: it never returns,
\* whichever way readSpin ended; and once readSpin has ended no step makes
\* any command call return.
C18_LateCommandNeverReturns ==
    /\ [](\A c \in hist.late :
            /\ rpc = "exited"
            /\ hist.exitBy \in {"close", "error"}
            /\ cpc[c] \in {"enqueue", "encode", "wait"}
            /\ cpc[c] = "wait" => c \in Queued)
    /\ [][rpc = "exited" => \A c \in Callers :
            cpc'[c] = "returned" => cpc[c] = "returned"]_vars

\* after readSpin has ended, one late call waits for its signal with its
\* write to the closed connection lost, and another is blocked in its enqueue
C18_Witness ==
    \E c, d \in hist.late :
        /\ cpc[c] = "wait"
        /\ cpc[d] = "enqueue"
        /\ hist.encodes = 0
        /\ IsClosed("c")

\* readSpin decodes the frame at the head of inbox in this step
Decodes == rpc = "decode" /\ inbox # <<>> /\ inbox' = Tail(inbox)

\* C11: the notification of every push frame readSpin decodes becomes the
\* notification waiting to be taken; while one is waiting readSpin decodes
\* nothing, and the next thing the consumer receives is that notification;
\* the consumer receives nothing else.  So what the consumer has received is
\* a prefix, in order, of what readSpin has decoded, and nothing is dropped.
C11_NotificationsNeverDropped ==
    [][/\ Decodes /\ NotificationsOf(Head(inbox)) # <<>> =>
              /\ rpc' = "send"
              /\ <<mm'.Message>> = NotificationsOf(Head(inbox))
       /\ rpc = "send" =>
              /\ ~Decodes
              /\ \/ rpc' = "send" /\ mm' = mm /\ out' = out
                 \/ out' = Append(out, mm.Message)
       /\ out' # out => rpc = "send" /\ out' = Append(out, mm.Message)]_vars

\* readSpin holds a frame that is no push and the queue is empty
BlockedOnQueue == rpc = "pop" /\ cmdDoneCh = <<>>
\* the callers whose acknowledgment the server has sent and readSpin has not decoded
UnreadAcks == {hist.owners[i] : i \in DOMAIN hist.owners} \ {0}
\* the unsolicited frames readSpin has not finished with: in inbox or in hand
UnsolicitedLeft ==
    Cardinality({i \in DOMAIN hist.owners : hist.owners[i] = 0})
        + (IF frame # <<>> /\ hist.frameOwner = 0 THEN 1 ELSE 0)
\* a second acknowledgment has completed a command
Desynced == hist.pushes > UnsolicitedLeft
\* the call of c returns in this step
Completes(c) == cpc[c] = "wait" /\ cpc'[c] = "returned"

\* while readSpin is blocked on the empty queue it stays there with its
\* frame: it decodes nothing and lets no Close() return
StaysBlocked ==
    BlockedOnQueue =>
        /\ rpc' = "pop"
        /\ frame' = frame
        /\ Len(inbox') >= Len(inbox)
        /\ closed' = closed
        /\ \A k \in Closers : kpc'[k] = "returned" => kpc[k] = "returned"
\* the call that enqueues while readSpin is blocked is the one the frame in
\* hand completes; a call completed by a frame that is not its own
\* acknowledgment returns with its own acknowledgment unread
CompletedByStaleFrame ==
    \A c \in Callers :
        /\ BlockedOnQueue /\ cmdDoneCh' = <<c>> =>
                /\ hist.frameOwner # c
                /\ c \notin UnreadAcks
                /\ frame' = frame
        /\ rpc = "pop" /\ sigTo' = c => frame' = frame /\ cmdDoneCh = <<c>>
        /\ Completes(c) /\ hist.frameOwner # c => c \in UnreadAcks

\* C19 as stated: readSpin stays blocked on the empty queue, the next call is
\* completed by the stale frame, and once a second acknowledgment has
\* completed a command every later command is completed by the
\* acknowledgment of a command that returned before it.
C19_CompletedByPreviousAck ==
    [][/\ StaysBlocked
       /\ CompletedByStaleFrame
       /\ \A c \in Callers : Desynced /\ Completes(c) =>
              hist.frameOwner \in hist.signalled]_vars

\* C19 amended: readSpin stays blocked on the empty queue, the next call is
\* completed by the stale frame, and once a second acknowledgment has
\* completed a command every later command returns while the acknowledgment
\* of some command is still unread.
C19_ReturnsOneFrameBehind ==
    [][/\ StaysBlocked
       /\ CompletedByStaleFrame
       /\ \A c \in Callers : Desynced /\ Completes(c) =>
              UnreadAcks' # {}]_vars

\* after a second acknowledgment completed the first command, the second
\* command is being completed by the first command's acknowledgment while
\* its own is unread
C19_Witness ==
    /\ rpc = "signal"
    /\ Desynced
    /\ hist.signalled # {}
    /\ hist.frameOwner \in hist.signalled
    /\ sigTo \in UnreadAcks

\* ---- sentinelClient

\* the pools the ensureMaster call e has dialed
DialedBy(e) == {i \in DOMAIN pools : pools[i].dialedBy = e}
\* pool i has been closed by a swap of ensureMaster
Replaced(i) == \E n \in DOMAIN pools[i].closedBy : pools[i].closedBy[n] = "ensureMaster"
\* the ensureMaster call e completes its swap in this step
SwapCompletes(e) == epc[e] = "install" /\ epc'[e] = "done"

\* C12: a Do() call in flight runs against the installed pool, which is bound
\* to the installed address, and never against a pool a swap has replaced;
\* the step that completes a swap installs the one pool the call has dialed,
\* bound to the reported ip:port, and a call that started from the empty
\* address and was told ip 10.0.0.5, port 6379 dialed 10.0.0.5:6379.
C12_DoUsesSwappedInPool ==
    /\ [](/\ p # 0 => pools[p].addr = pAddr
          /\ \A u \in Users : upc[u] = "inDo" =>
                /\ uloc[u].pool = p
                /\ ~Replaced(uloc[u].pool))
    /\ [][\A e \in Ensurers : SwapCompletes(e) =>
            /\ DialedBy(e)' = {p'}
            /\ p' # p
            /\ pools'[p'].addr = eloc[e].newAddr
            /\ pAddr' = eloc[e].newAddr
            /\ eloc'[e].err = NoErr
            /\ (eloc[e].lastAddr = <<>> /\ eloc[e].newAddr[1] = "10.0.0.5"
                    => pools'[p'].addr = <<"10.0.0.5", ":", "6379">>)]_svars

\* a Do() runs on the pool of the second swap after the first pool was replaced
C12_Witness ==
    \E u \in Users :
        /\ upc[u] = "inDo"
        /\ uloc[u].pool = p
        /\ \E i \in DOMAIN pools : i # p /\ Replaced(i)
        /\ \E e \in Ensurers : epc[e] = "done" /\ eloc[e].lastAddr = <<>>
                               /\ eloc[e].newPool # 0


\* the ensureMaster call e is between its snapshot of sc.pAddr and its swap:
\* it is querying the sentinel or dialing the new pool
Constructing(e) == epc[e] \in {"query", "dial"}
\* the Do() call u is executing against pool i
DoInFlightOn(u, i) == upc[u] = "inDo" /\ uloc[u].pool = i

\* C13: a call that is querying or dialing does not hold the lock, and its
\* query and dial steps leave the installed pool installed and close no
\* pool; ensureMaster closes a pool only in a step in which no Do() is
\* executing against it, so a Do() in flight is on a pool no swap has closed.
C13_OldPoolUsableUntilSwap ==
    /\ [](/\ \A e \in Ensurers : Constructing(e) => wlock # e
          /\ \A u \in Users : upc[u] = "inDo" => ~Replaced(uloc[u].pool))
    /\ [][/\ \A e \in Ensurers : Constructing(e) /\ epc'[e] # epc[e] =>
                /\ p' = p
                /\ pAddr' = pAddr
                /\ \A i \in DOMAIN pools : pools'[i] = pools[i]
          /\ \A i \in DOMAIN pools : Replaced(i)' /\ ~Replaced(i) =>
                \A u \in Users : ~DoInFlightOn(u, i)]_svars

\* a Do() is in flight on the open old pool while a call that has detected
\* the address change has dialed the new pool and waits for the lock
C13_Witness ==
    \E u \in Users, e \in Ensurers :
        /\ epc[e] = "lock"
        /\ p # 0
        /\ DoInFlightOn(u, p)
        /\ ~PoolClosed(p)
        /\ eloc[e].newAddr # pAddr


\* the ensureMaster call e receives the sentinel's reply in this step
QueryReturns(e) == epc[e] = "query" /\ epc'[e] # "query"
\* the reply it receives is well-formed and reports the installed pool's address
ReportsInstalledAddr(e) ==
    /\ QueryReturns(e)
    /\ eloc'[e].err \in {Unset, NoErr}
    /\ p # 0
    /\ shist'.lastReported = pools[p].addr

\* C14: a call that is told the address of the installed pool returns nil at
\* once: it goes on to no dial and leaves sc.p, sc.pAddr and every pool as
\* they are.
C14_SameAddrIsNoOp ==
    [][\A e \in Ensurers : ReportsInstalledAddr(e) =>
            /\ epc'[e] = "done"
            /\ eloc'[e].err = NoErr
            /\ p' = p
            /\ pAddr' = pAddr
            /\ pools' = pools]_svars


\* err is an error a call has returned
IsError(err) == err \notin {Unset, NoErr}
\* a step that leaves sc.p, sc.pAddr, sc.addrs and the pools dialed so far alone
ClientUntouched ==
    /\ p' = p
    /\ pAddr' = pAddr
    /\ addrs' = addrs
    /\ \A i \in DOMAIN pools : pools'[i] = pools[i]

\* C15: the step in which ensureMaster or ensureSentinelAddrs returns an
\* error, and every step of the call before it, leaves the pool, its address,
\* the sentinel addresses and every pool untouched; a call that returned an
\* error holds no lock, has dialed no pool and has reported one of the three
\* errors: that of the query, the malformed reply or that of the dial.
C15_ErrorLeavesClientUntouched ==
    /\ [][/\ \A e \in Ensurers :
                (IsError(eloc'[e].err) /\ ~IsError(eloc[e].err)) \/
                (epc[e] \in {"idle", "query"} /\ epc'[e] # epc[e])
                    => ClientUntouched
          /\ (IsError(aloc'.err) /\ ~IsError(aloc.err)) \/ (apc = "idle" /\ apc' # apc)
                    => ClientUntouched /\ pools' = pools]_svars
    /\ [](/\ \A e \in Ensurers : IsError(eloc[e].err) =>
                /\ epc[e] = "done"
                /\ wlock # e
                /\ DialedBy(e) = {}
                /\ eloc[e].err \in {MalformedErr, DialErr} \cup
                       {r.err : r \in MasterReplies(master)}
                /\ eloc[e].err = DialErr <=> eloc[e].newAddr # <<>>
          /\ IsError(aloc.err) =>
                /\ apc = "done"
                /\ aloc.err \in {r.err : r \in SentinelsReplies})

\* a dial has failed and a topology refresh has failed while a pool is
\* installed and open
C15_Witness ==
    /\ \E e \in Ensurers : eloc[e].err = DialErr
    /\ IsError(aloc.err)
    /\ p # 0
    /\ ~PoolClosed(p)


\* the ensureMaster call e takes a step inside its exclusive critical section
StepUnderLock(e) == wlock = e /\ epc'[e] # epc[e]
\* the step reads or assigns fields of the client under sc.Lock() and
\* sc.Unlock() in one go: the snapshot of sc.pAddr, the assignment of sc.addrs
FieldSection ==
    \/ \E e \in Ensurers : epc[e] = "idle" /\ epc'[e] # "idle"
    \/ apc = "assign" /\ apc' # "assign"

\* C16 as stated: a step inside an exclusive critical section performs no
\* query, no dial and no operation on any pool, closing included.
C16_NoPoolOperationUnderLock ==
    [][/\ \A e \in Ensurers : StepUnderLock(e) =>
                pools' = pools /\ shist' = shist
       /\ FieldSection => pools' = pools /\ shist' = shist]_svars

\* C16 amended: the holder of the lock is past its query and its dial; a
\* step inside an exclusive critical section performs no query and no dial,
\* and the only operation on a pool is one Close() of the pool installed
\* until then.
C16_OnlyClosePrevUnderLock ==
    /\ [](\A e \in Ensurers : wlock = e => epc[e] \in {"closePrev", "install"})
    /\ [][/\ \A e \in Ensurers : StepUnderLock(e) =>
                /\ shist' = shist
                /\ Len(pools') = Len(pools)
                /\ \A i \in DOMAIN pools : pools'[i] # pools[i] =>
                       /\ i = p
                       /\ epc[e] = "closePrev"
                       /\ pools' = ClosePool(p, "ensureMaster")
          /\ FieldSection => pools' = pools /\ shist' = shist]_svars

\* the holder of the lock has closed the previous pool and has not yet
\* assigned the new one
C16_Witness ==
    \E e \in Ensurers :
        /\ wlock = e
        /\ epc[e] = "install"
        /\ p # 0
        /\ Replaced(p)


\* every ensureMaster call has returned, and none with an error
AllReturned == \A e \in Ensurers : epc[e] = "done" /\ eloc[e].err = NoErr

\* C20: once every ensureMaster call has returned nil, the installed pool is
\* bound to the address of the sentinel's latest reply, every other pool
\* that was dialed has been closed, and no pool has been closed twice.
C20_ConcurrentSwapsConverge ==
    AllReturned /\ p # 0 =>
        /\ pools[p].addr = shist.lastReported
        /\ \A i \in DOMAIN pools : i # p => PoolClosed(i)
        /\ \A i \in DOMAIN pools : Len(pools[i].closedBy) <= 1

====
